---- MODULE Spec2Model ----
(***************************************************************************)
(* Interview state machine of the travel agent: the process-wide           *)
(* agent_state dictionary of travel_agent.py, the /travel-agent endpoint   *)
(* of main.py that drives it, and the state bookkeeping of                 *)
(* TravelAgentEnvironment.execute_action.                                  *)
(*                                                                         *)
(* Text is modelled as a sequence of characters, so that substring tests   *)
(* and lower-casing are computed as Python computes them.  A Latin         *)
(* character stands for itself; a Cyrillic letter is written as its Latin  *)
(* transliteration followed by an underscore ("d_" is Cyrillic de, "D_"    *)
(* its capital), so the two alphabets never collide.                       *)
(***************************************************************************)
EXTENDS Integers, Sequences, FiniteSets, TLC

\* agent_state: the module-level dictionary of travel_agent.py
\* memory, status: the body of the last /travel-agent response
\* tool_result: the result of the last execute_action call
\* last: which operation ran last, on which input, and the session it found
\* call: a direct call of one function: its name, its argument, its result
\* summaries: how many summaries were built since the session was last reset
VARIABLES agent_state, memory, status, tool_result, last, call, summaries

vars == <<agent_state, memory, status, tool_result, last, call, summaries>>

(***************************************************************************)
(* Text primitives                                                         *)
(***************************************************************************)

\* Capital letters of the modelled alphabet and their lower-case forms.
LowerMap ==
    [c \in {"T_", "D_", "O_", "S_", "P_", "Y", "E", "S", "O", "I", "B", "N"} |->
        CASE c = "T_" -> "t_" [] c = "D_" -> "d_" [] c = "O_" -> "o_"
          [] c = "S_" -> "s_" [] c = "P_" -> "p_"
          [] c = "Y" -> "y" [] c = "E" -> "e" [] c = "S" -> "s"
          [] c = "O" -> "o" [] c = "I" -> "i" [] c = "B" -> "b"
          [] c = "N" -> "n"]

\* str.lower() on one character.
LowerChar(c) == IF c \in DOMAIN LowerMap THEN LowerMap[c] ELSE c

\* str.lower()
Lower(text) == [i \in 1..Len(text) |-> LowerChar(text[i])]

\* Contains that looks at the start of the text only.
Contains_PrefixOnly(text, word) ==
    Len(word) <= Len(text) /\ SubSeq(text, 1, Len(word)) = word

\* Python's `word in text` on strings: substring containment.
Contains(text, word) ==
    \E i \in 1..(Len(text) - Len(word) + 1) :
        SubSeq(text, i, i + Len(word) - 1) = word

\* sum(1 for word in words if word in text): one per list ENTRY, so an
\* entry listed twice counts twice.
CountIn(words, text) ==
    Cardinality({i \in DOMAIN words : Contains(text, words[i])})

(***************************************************************************)
(* Configuration data                                                      *)
(***************************************************************************)

\* travel, poezdka, puteshestvie, tur, nachat', novyj, snova
new_conversation_keywords ==
    << <<"t", "r", "a", "v", "e", "l">>,
       <<"p_", "o_", "e_", "z_", "d_", "k_", "a_">>,
       <<"p_", "u_", "t_", "e_", "sh_", "e_", "s_", "t_", "v_", "i_", "e_">>,
       <<"t_", "u_", "r_">>,
       <<"n_", "a_", "ch_", "a_", "t_", "soft_">>,
       <<"n_", "o_", "v_", "y_", "j_">>,
       <<"s_", "n_", "o_", "v_", "a_">> >>

\* horosho, zdorovo, super, kruto, nravitsya, otlichno, prekrasno,
\* zamechatel'no, velikolepno, potryasayusche, spasibo, blagodaryu,
\* ponravilos', podhodit, ustraivaet, da, soglasen, prinimayu, beru
positive_words ==
    << <<"h_", "o_", "r_", "o_", "sh_", "o_">>,
       <<"z_", "d_", "o_", "r_", "o_", "v_", "o_">>,
       <<"s_", "u_", "p_", "e_", "r_">>,
       <<"k_", "r_", "u_", "t_", "o_">>,
       <<"n_", "r_", "a_", "v_", "i_", "t_", "s_", "ya_">>,
       <<"o_", "t_", "l_", "i_", "ch_", "n_", "o_">>,
       <<"p_", "r_", "e_", "k_", "r_", "a_", "s_", "n_", "o_">>,
       <<"z_", "a_", "m_", "e_", "ch_", "a_", "t_", "e_", "l_", "soft_", "n_", "o_">>,
       <<"v_", "e_", "l_", "i_", "k_", "o_", "l_", "e_", "p_", "n_", "o_">>,
       <<"p_", "o_", "t_", "r_", "ya_", "s_", "a_", "yu_", "sch_", "e_">>,
       <<"s_", "p_", "a_", "s_", "i_", "b_", "o_">>,
       <<"b_", "l_", "a_", "g_", "o_", "d_", "a_", "r_", "yu_">>,
       <<"p_", "o_", "n_", "r_", "a_", "v_", "i_", "l_", "o_", "s_", "soft_">>,
       <<"p_", "o_", "d_", "h_", "o_", "d_", "i_", "t_">>,
       <<"u_", "s_", "t_", "r_", "a_", "i_", "v_", "a_", "e_", "t_">>,
       <<"d_", "a_">>,
       <<"s_", "o_", "g_", "l_", "a_", "s_", "e_", "n_">>,
       <<"p_", "r_", "i_", "n_", "i_", "m_", "a_", "yu_">>,
       <<"b_", "e_", "r_", "u_">> >>

\* ne ochen', ne nravitsya, govno, lazha, ploho, uzhasno, ne podhodit,
\* ne ustraivaet, ne to, nepravil'no, neverno, netochno, neaktual'no,
\* ne podhodit, ne podhodit, ne, net, otkazyvayus', ne hochu, ne budu
negative_words ==
    << <<"n_", "e_", " ", "o_", "ch_", "e_", "n_", "soft_">>,
       <<"n_", "e_", " ", "n_", "r_", "a_", "v_", "i_", "t_", "s_", "ya_">>,
       <<"g_", "o_", "v_", "n_", "o_">>,
       <<"l_", "a_", "zh_", "a_">>,
       <<"p_", "l_", "o_", "h_", "o_">>,
       <<"u_", "zh_", "a_", "s_", "n_", "o_">>,
       <<"n_", "e_", " ", "p_", "o_", "d_", "h_", "o_", "d_", "i_", "t_">>,
       <<"n_", "e_", " ", "u_", "s_", "t_", "r_", "a_", "i_", "v_", "a_", "e_", "t_">>,
       <<"n_", "e_", " ", "t_", "o_">>,
       <<"n_", "e_", "p_", "r_", "a_", "v_", "i_", "l_", "soft_", "n_", "o_">>,
       <<"n_", "e_", "v_", "e_", "r_", "n_", "o_">>,
       <<"n_", "e_", "t_", "o_", "ch_", "n_", "o_">>,
       <<"n_", "e_", "a_", "k_", "t_", "u_", "a_", "l_", "soft_", "n_", "o_">>,
       <<"n_", "e_", " ", "p_", "o_", "d_", "h_", "o_", "d_", "i_", "t_">>,
       <<"n_", "e_", " ", "p_", "o_", "d_", "h_", "o_", "d_", "i_", "t_">>,
       <<"n_", "e_">>,
       <<"n_", "e_", "t_">>,
       <<"o_", "t_", "k_", "a_", "z_", "y_", "v_", "a_", "yu_", "s_", "soft_">>,
       <<"n_", "e_", " ", "h_", "o_", "ch_", "u_">>,
       <<"n_", "e_", " ", "b_", "u_", "d_", "u_">> >>

\* the token tested first at step 8
affirmative_da == <<"d_", "a_">>
\* the token tested second at step 8
affirmative_yes == <<"y", "e", "s">>
\* the fixed input process_user_response passes on
continue_input == <<"c", "o", "n", "t", "i", "n", "u", "e">>
\* default of responses.get(...)
not_specified == <<"N", "o", "t", " ", "s", "p", "e", "c", "i", "f", "i", "e", "d">>
\* trip-type keywords of the summary
kw_organized == <<"o", "r", "g", "a", "n", "i", "z", "e", "d">>
kw_independent == <<"i", "n", "d", "e", "p", "e", "n", "d", "e", "n", "t">>
kw_business == <<"b", "u", "s", "i", "n", "e", "s", "s">>
\* trip-type codes of the summary
code_1 == <<"1">>
code_2 == <<"2">>
code_3 == <<"3">>

\* agent_state["max_errors"]
max_errors == 3

(***************************************************************************)
(* Prompts.  Each prompt function returns a fixed text; the model names    *)
(* the text after the function that returns it.                            *)
(***************************************************************************)

Prompt(name) == [text |-> name, body |-> <<>>]

ask_trip_type == Prompt("ask_trip_type")
ask_destination == Prompt("ask_destination")
ask_group_size == Prompt("ask_group_size")
ask_travel_dates == Prompt("ask_travel_dates")
ask_departure_city == Prompt("ask_departure_city")
ask_user_feedback == Prompt("ask_user_feedback")
analyze_negative_feedback == Prompt("analyze_negative_feedback")
offer_human_agent_connection == Prompt("offer_human_agent_connection")
\* the literal of process_user_response's neutral branch
clarify_feedback == Prompt("clarify_feedback")
\* the two closing literals of step 8
final_handoff == Prompt("final_handoff")
final_thanks == Prompt("final_thanks")
\* the literal returned for a goal outside 1..8
session_completed == Prompt("session_completed")

(***************************************************************************)
(* Session state                                                           *)
(***************************************************************************)

\* dict with no entry
EmptyResponses == [k \in {} |-> <<>>]

\* d[k] = v
Put(d, k, v) == [x \in (DOMAIN d) \cup {k} |-> IF x = k THEN v ELSE d[x]]

\* d.get(k, default)
Get(d, k, default) == IF k \in DOMAIN d THEN d[k] ELSE default

\* The module-level dictionary, which is also what reset_agent_state writes.
FreshState ==
    [ current_goal |-> 1,
      user_responses |-> EmptyResponses,
      error_count |-> 0,
      max_errors |-> max_errors,
      goal_completed |-> FALSE,
      conversation_active |-> TRUE,
      has_asked_goal_1 |-> FALSE ]

\* reset_agent_state that keeps the answers.
reset_agent_state_KeepsAnswers ==
    [FreshState EXCEPT !.user_responses = agent_state.user_responses]

reset_agent_state == FreshState

(***************************************************************************)
(* Feedback classifier                                                     *)
(***************************************************************************)

analyze_feedback_sentiment(user_feedback) ==
    LET feedback_lower == Lower(user_feedback)
        positive_count == CountIn(positive_words, feedback_lower)
        negative_count == CountIn(negative_words, feedback_lower)
    IN  IF positive_count > negative_count THEN "positive"
        ELSE IF negative_count > positive_count THEN "negative"
        ELSE "neutral"

(***************************************************************************)
(* Summary builder                                                         *)
(***************************************************************************)

\* What get_perplexity_recommendations can do: return the formatted
\* recommendations, return one of its five error texts, or fail before its
\* own try block (the import of requests), which the caller catches.
RecOutcomes ==
    { "recommendations", "no_api_key", "api_error", "timeout",
      "connection_error", "unexpected_error", "raised" }

\* RecommendationBlock without the try/except around the call.
RecommendationBlock_Propagates(rec) ==
    IF rec = "raised" THEN "uncaught_exception" ELSE rec

\* The text the summary appends for each outcome.
RecommendationBlock(rec) ==
    IF rec = "raised" THEN "error_getting_recommendations" ELSE rec

\* HttpPosts that tries a second time after a timeout.
HttpPosts_RetriesTimeout(rec) ==
    IF rec \in {"no_api_key", "raised"} THEN 0
    ELSE IF rec = "timeout" THEN 2 ELSE 1

\* The requests get_perplexity_recommendations sends for each outcome: none
\* when it stops before the request (no key, failed import), else the one
\* requests.post, which no handler repeats.
HttpPosts(rec) ==
    IF rec \in {"no_api_key", "raised"} THEN 0 ELSE 1

label_organized == <<"label_organized">>
label_independent == <<"label_independent">>
label_business == <<"label_business">>

\* trip_type_display that forgets to lower-case.
trip_type_display_CaseSensitive(trip_type) ==
    IF trip_type = code_2 \/ Contains(trip_type, kw_organized)
    THEN label_organized
    ELSE IF trip_type = code_1 \/ Contains(trip_type, kw_independent)
    THEN label_independent
    ELSE IF trip_type = code_3 \/ Contains(trip_type, kw_business)
    THEN label_business
    ELSE trip_type

trip_type_display(trip_type) ==
    IF trip_type = code_2 \/ Contains(Lower(trip_type), kw_organized)
    THEN label_organized
    ELSE IF trip_type = code_1 \/ Contains(Lower(trip_type), kw_independent)
    THEN label_independent
    ELSE IF trip_type = code_3 \/ Contains(Lower(trip_type), kw_business)
    THEN label_business
    ELSE trip_type

\* The summary text: the five rendered lines, then the recommendation block.
generate_travel_summary(st, rec) ==
    LET responses == st.user_responses
    IN  [ text |-> "travel_summary",
          body |-> << trip_type_display(Get(responses, "trip_type", not_specified)),
                      Get(responses, "destination", not_specified),
                      Get(responses, "group_size", not_specified),
                      Get(responses, "travel_dates", not_specified),
                      Get(responses, "departure_city", not_specified),
                      RecommendationBlock(rec) >> ]

(***************************************************************************)
(* Turn processing                                                         *)
(***************************************************************************)

Entry(type, content) == [type |-> type, content |-> content]

\* Both functions return the new session state and the Memory they built;
\* built is the number of summaries the turn built and posts the number of
\* requests it sent to the recommendation service.
run_travel_agent_with_input(st, user_input, rec) ==
    LET current_goal == st.current_goal
        response ==
            CASE current_goal = 1 -> ask_trip_type
              [] current_goal = 2 -> ask_destination
              [] current_goal = 3 -> ask_group_size
              [] current_goal = 4 -> ask_travel_dates
              [] current_goal = 5 -> ask_departure_city
              [] current_goal = 6 -> generate_travel_summary(st, rec)
              [] current_goal = 7 -> ask_user_feedback
              [] current_goal = 8 -> offer_human_agent_connection
              [] OTHER -> session_completed
    IN  [ st |-> IF current_goal = 1
                 THEN [st EXCEPT !.has_asked_goal_1 = TRUE]
                 ELSE st,
          memory |-> << Entry("user", user_input),
                        Entry("assistant", response) >>,
          built |-> IF current_goal = 6 THEN 1 ELSE 0,
          posts |-> IF current_goal = 6 THEN HttpPosts(rec) ELSE 0 ]

\* The key process_user_response stores the answer of goals 1..5 under.
AnswerKey(goal) ==
    CASE goal = 1 -> "trip_type"
      [] goal = 2 -> "destination"
      [] goal = 3 -> "group_size"
      [] goal = 4 -> "travel_dates"
      [] goal = 5 -> "departure_city"

\* IsAffirmative that forgets to lower-case.
IsAffirmative_CaseSensitive(user_response) ==
    \/ Contains(user_response, affirmative_da)
    \/ Contains(user_response, affirmative_yes)

\* `"da" in user_response.lower() or "yes" in user_response.lower()`
IsAffirmative(user_response) ==
    \/ Contains(Lower(user_response), affirmative_da)
    \/ Contains(Lower(user_response), affirmative_yes)

\* AdvanceAndContinue that forgets to reset the error count.
AdvanceAndContinue_KeepsErrors(st, current_goal, rec) ==
    LET moved == IF current_goal <= 6
                 THEN [st EXCEPT !.current_goal = @ + 1,
                                 !.has_asked_goal_1 = TRUE]
                 ELSE st
    IN  run_travel_agent_with_input(moved, continue_input, rec)

\* The tail of process_user_response: goals 1..6 move on, then the next
\* question (or the summary) is produced for the input "continue".
AdvanceAndContinue(st, current_goal, rec) ==
    LET moved == IF current_goal <= 6
                 THEN [st EXCEPT !.current_goal = @ + 1,
                                 !.error_count = 0,
                                 !.has_asked_goal_1 = TRUE]
                 ELSE st
    IN  run_travel_agent_with_input(moved, continue_input, rec)

\* StoreAnswer that always writes the first key.
StoreAnswer_WrongKey(st, current_goal, user_response) ==
    [st EXCEPT !.user_responses = Put(@, AnswerKey(1), user_response)]

\* Goals 1..5: the answer is stored under the goal's key.
StoreAnswer(st, current_goal, user_response) ==
    [st EXCEPT !.user_responses =
         Put(@, AnswerKey(current_goal), user_response)]

\* Goal 7: the feedback is stored before it is classified.
StoreFeedback(st, user_response) ==
    [st EXCEPT !.user_responses = Put(@, "feedback", user_response)]

\* StayOnFeedback that leaves the error count alone.
StayOnFeedback_KeepsErrors(st, user_response, reply) ==
    [ st |-> [st EXCEPT !.current_goal = 7,
                        !.has_asked_goal_1 = TRUE],
      memory |-> << Entry("user", user_response),
                    Entry("assistant", reply) >>,
      built |-> 0,
      posts |-> 0 ]

\* StayOnFeedback that counts the answer as an error.
StayOnFeedback_CountsError(st, user_response, reply) ==
    [ st |-> [st EXCEPT !.current_goal = 7,
                        !.error_count = @ + 1,
                        !.has_asked_goal_1 = TRUE],
      memory |-> << Entry("user", user_response),
                    Entry("assistant", reply) >>,
      built |-> 0,
      posts |-> 0 ]

\* StayOnFeedback that hands on the fixed input instead of the feedback.
StayOnFeedback_SaysContinue(st, user_response, reply) ==
    [ st |-> [st EXCEPT !.current_goal = 7,
                        !.error_count = 0,
                        !.has_asked_goal_1 = TRUE],
      memory |-> << Entry("user", continue_input),
                    Entry("assistant", reply) >>,
      built |-> 0,
      posts |-> 0 ]

\* Negative or neutral feedback: stay on goal 7 and reply at once.
StayOnFeedback(st, user_response, reply) ==
    [ st |-> [st EXCEPT !.current_goal = 7,
                        !.error_count = 0,
                        !.has_asked_goal_1 = TRUE],
      memory |-> << Entry("user", user_response),
                    Entry("assistant", reply) >>,
      built |-> 0,
      posts |-> 0 ]

\* PositiveFeedback that forgets to move on.
PositiveFeedback_Stays(st) == st

\* Positive feedback: move to goal 8.
PositiveFeedback(st) == [st EXCEPT !.current_goal = 8]

\* CloseSession that leaves the conversation active.
CloseSession_StaysActive(st, user_response) ==
    [ st |-> [st EXCEPT !.user_responses =
                  Put(@, "human_agent_request", user_response),
                        !.goal_completed = TRUE],
      memory |-> << Entry("user", user_response),
                    Entry("assistant",
                          IF IsAffirmative(user_response)
                          THEN final_handoff
                          ELSE final_thanks) >>,
      built |-> 0,
      posts |-> 0 ]

\* CloseSession that only stores the answer.
CloseSession_NotCompleted(st, user_response) ==
    [ st |-> [st EXCEPT !.user_responses =
                  Put(@, "human_agent_request", user_response)],
      memory |-> << Entry("user", user_response),
                    Entry("assistant",
                          IF IsAffirmative(user_response)
                          THEN final_handoff
                          ELSE final_thanks) >>,
      built |-> 0,
      posts |-> 0 ]

\* Goal 8: the answer is stored and the conversation ends.
CloseSession(st, user_response) ==
    [ st |-> [st EXCEPT !.user_responses =
                  Put(@, "human_agent_request", user_response),
                        !.conversation_active = FALSE,
                        !.goal_completed = TRUE],
      memory |-> << Entry("user", user_response),
                    Entry("assistant",
                          IF IsAffirmative(user_response)
                          THEN final_handoff
                          ELSE final_thanks) >>,
      built |-> 0,
      posts |-> 0 ]

process_user_response(st, user_response, rec) ==
    LET current_goal == st.current_goal
    IN  IF current_goal \in 1..5
        THEN AdvanceAndContinue(StoreAnswer(st, current_goal, user_response),
                                current_goal, rec)
        ELSE IF current_goal = 7
        THEN LET stored == StoreFeedback(st, user_response)
                 sentiment == analyze_feedback_sentiment(user_response)
             IN  IF sentiment = "negative"
                 THEN StayOnFeedback(stored, user_response,
                                     analyze_negative_feedback)
                 ELSE IF sentiment = "positive"
                 THEN AdvanceAndContinue(PositiveFeedback(stored),
                                         current_goal, rec)
                 ELSE StayOnFeedback(stored, user_response, clarify_feedback)
        ELSE IF current_goal = 8
        THEN CloseSession(st, user_response)
        ELSE AdvanceAndContinue(st, current_goal, rec)

(***************************************************************************)
(* The /travel-agent endpoint                                              *)
(***************************************************************************)

\* is_new_conversation that forgets to lower-case.
is_new_conversation_CaseSensitive(message) ==
    \E i \in DOMAIN new_conversation_keywords :
        Contains(message, new_conversation_keywords[i])

\* any(keyword in request.message.lower() for keyword in ...)
is_new_conversation(message) ==
    \E i \in DOMAIN new_conversation_keywords :
        Contains(Lower(message), new_conversation_keywords[i])

\* NeedsReset that looks at the utterance only.
NeedsReset_KeywordsOnly(st, message) == is_new_conversation(message)

\* The condition under which the endpoint calls reset_agent_state.
NeedsReset(st, message) ==
    \/ st.goal_completed
    \/ ~st.conversation_active
    \/ is_new_conversation(message)

\* IsContinuation that takes every utterance for an answer.
IsContinuation_Always(st) == st.current_goal >= 1

\* The test that tells an answer from the opening utterance.
IsContinuation(st) ==
    \/ st.current_goal > 1
    \/ (st.current_goal = 1 /\ st.has_asked_goal_1)

\* StatusOf that reports the end as soon as the last goal is reached.
StatusOf_FromLastGoal(st) ==
    IF st.current_goal >= 8 \/ st.goal_completed
    THEN "completed"
    ELSE "in_progress"

\* The status field of the response.
StatusOf(st) ==
    IF st.current_goal > 8 \/ st.goal_completed
    THEN "completed"
    ELSE "in_progress"

\* No tool has run since the last request.
NoResult == Prompt("none")

\* The session a request of conversation conv works on: the request carries
\* no conversation identity and the endpoint imports the one agent_state.
SessionOf(conv) == agent_state

\* What the endpoint does with one request of conversation conv.  The
\* session it works on is the module-level agent_state, whoever calls.
HandleRequest(conv, message, rec) ==
    LET reset == NeedsReset(agent_state, message)
        st == IF reset THEN reset_agent_state ELSE agent_state
        result == IF IsContinuation(st)
                  THEN process_user_response(st, message, rec)
                  ELSE run_travel_agent_with_input(st, message, rec)
    IN  [ st |-> result.st,
          memory |-> result.memory,
          status |-> StatusOf(result.st),
          summaries |-> (IF reset THEN 0 ELSE summaries) + result.built,
          last |-> [ op |-> "travel_agent",
                     conv |-> conv,
                     message |-> message,
                     reset |-> reset,
                     path |-> IF IsContinuation(st) THEN "process" ELSE "start",
                     prev_goal |-> agent_state.current_goal,
                     goal |-> st.current_goal,
                     err |-> st.error_count,
                     built |-> result.built,
                     posts |-> result.posts ] ]

\* POST /travel-agent
travel_agent(conv, message, rec) ==
    LET out == HandleRequest(conv, message, rec)
    IN  /\ agent_state' = out.st
        /\ memory' = out.memory
        /\ status' = out.status
        /\ tool_result' = NoResult
        /\ last' = out.last
        /\ summaries' = out.summaries
        /\ UNCHANGED call

(***************************************************************************)
(* Inputs                                                                  *)
(***************************************************************************)

\* "Tur": a trigger phrase once lower-cased
U_Tur == <<"T_", "u_", "r_">>
\* "2": no keyword of any list
U_Two == <<"2">>
\* "Da": positive feedback and an affirmative token once lower-cased
U_Da == <<"D_", "a_">>
\* "ne ochen'": negative feedback
U_NeOchen == <<"n_", "e_", " ", "o_", "ch_", "e_", "n_", "soft_">>
\* "YES": an affirmative token once lower-cased, no sentiment keyword
U_YES == <<"Y", "E", "S">>

Utterances == {U_Tur, U_Two, U_Da, U_NeOchen, U_YES}

Conversations == {"A", "B"}

(***************************************************************************)
(* Specification of the endpoint                                           *)
(***************************************************************************)

\* last: op is the operation, conv and message its inputs, reset whether it
\* called reset_agent_state, path the branch the endpoint took, prev_goal the
\* goal it found, goal and err the goal and error count its transition rule
\* started from (after the reset, if any), built the number of summaries
\* it built and posts the number of requests it sent to the recommendation
\* service.
NoTurn ==
    [ op |-> "none", conv |-> "none", message |-> <<>>, reset |-> FALSE,
      path |-> "none", prev_goal |-> 0, goal |-> 0, err |-> 0,
      built |-> 0, posts |-> 0 ]

\* No function has been called directly.
NoCall == [fn |-> "none", arg |-> <<>>, result |-> "none"]

Init ==
    /\ agent_state = FreshState
    /\ memory = <<>>
    /\ status = "none"
    /\ tool_result = NoResult
    /\ last = NoTurn
    /\ call = NoCall
    /\ summaries = 0

\* The Recommendation Client's outcome is an input of the turns that build
\* a summary, and of no other turn.
BuildsSummary(message) ==
    HandleRequest("A", message, "recommendations").memory[2].content.text
        = "travel_summary"

RecInputs(message) ==
    IF BuildsSummary(message) THEN RecOutcomes ELSE {"not_called"}

Next ==
    \E conv \in Conversations, message \in Utterances :
        \E rec \in RecInputs(message) :
            travel_agent(conv, message, rec)

Spec == Init /\ [][Next]_vars

(***************************************************************************)
(* TravelAgentEnvironment: the tools the agent loop may run, in any order, *)
(* on the same agent_state                                                 *)
(***************************************************************************)

\* Bounds of the counters the tools can push without limit.
MaxGoal == 11
MaxErrorCount == 4
MaxSummaries == 2

execute_sequential_travel_planning(st, rec) ==
    LET current_goal == st.current_goal
    IN  CASE current_goal = 1 -> ask_trip_type
          [] current_goal = 2 -> ask_destination
          [] current_goal = 3 -> ask_group_size
          [] current_goal = 4 -> ask_travel_dates
          [] current_goal = 5 -> ask_departure_city
          [] current_goal = 6 -> generate_travel_summary(st, rec)
          [] current_goal = 7 -> ask_user_feedback
          [] current_goal = 8 -> offer_human_agent_connection
          [] OTHER -> session_completed

\* The fixed texts _handle_sequential_response stores in place of answers.
Placeholder(goal) ==
    CASE goal = 1 -> <<"User specified trip type">>
      [] goal = 2 -> <<"User specified destination">>
      [] goal = 3 -> <<"User specified group size">>
      [] goal = 4 -> <<"User specified dates">>
      [] goal = 5 -> <<"User specified departure city">>

handle_sequential_response(st) ==
    LET current_goal == st.current_goal
    IN  IF current_goal = 6
        THEN [st EXCEPT !.conversation_active = FALSE,
                        !.goal_completed = TRUE]
        ELSE LET stored ==
                     IF current_goal \in 1..5
                     THEN [st EXCEPT !.user_responses =
                               Put(@, AnswerKey(current_goal),
                                   Placeholder(current_goal))]
                     ELSE st
             IN  [stored EXCEPT !.current_goal = @ + 1, !.error_count = 0]

\* _handle_error_response that stops counting at the maximum.
handle_error_response_Saturates(st) ==
    [st EXCEPT !.error_count = IF @ < st.max_errors THEN @ + 1 ELSE @]

handle_error_response(st) == [st EXCEPT !.error_count = @ + 1]

\* handle_user_error that compares with > instead of >=.
handle_user_error_OffByOne(st) ==
    IF st.error_count > st.max_errors
    THEN Prompt("max_errors_apology")
    ELSE [text |-> "retry_prompt",
          body |-> << IF st.current_goal \in 1..5
                      THEN AnswerKey(st.current_goal)
                      ELSE "the current question" >>]

\* The text handle_user_error returns: the apology, or the retry prompt of
\* the current goal.
handle_user_error(st) ==
    IF st.error_count >= st.max_errors
    THEN Prompt("max_errors_apology")
    ELSE [text |-> "retry_prompt",
          body |-> << IF st.current_goal \in 1..5
                      THEN AnswerKey(st.current_goal)
                      ELSE "the current question" >>]

ToolRun(op) ==
    [ op |-> op, conv |-> "none", message |-> <<>>, reset |-> FALSE,
      path |-> "none", prev_goal |-> agent_state.current_goal,
      goal |-> agent_state.current_goal, err |-> agent_state.error_count,
      built |-> 0, posts |-> 0 ]

\* execute_action on each of the three registered tools.
ExecSequential ==
    /\ agent_state.current_goal < MaxGoal
    /\ IF agent_state.current_goal = 6
       THEN /\ summaries < MaxSummaries
            /\ \E rec \in RecOutcomes :
                   /\ tool_result' =
                          execute_sequential_travel_planning(agent_state, rec)
                   /\ last' =
                          [ToolRun("execute_sequential_travel_planning")
                              EXCEPT !.built = 1, !.posts = HttpPosts(rec)]
            /\ summaries' = summaries + 1
       ELSE /\ tool_result' =
                   execute_sequential_travel_planning(agent_state,
                                                      "not_called")
            /\ last' = ToolRun("execute_sequential_travel_planning")
            /\ UNCHANGED summaries
    /\ agent_state' = handle_sequential_response(agent_state)
    /\ memory' = <<>>
    /\ status' = "none"
    /\ UNCHANGED call

ExecError ==
    /\ agent_state.error_count < MaxErrorCount
    /\ tool_result' = handle_user_error(agent_state)
    /\ agent_state' = handle_error_response(agent_state)
    /\ memory' = <<>>
    /\ status' = "none"
    /\ last' = ToolRun("handle_user_error")
    /\ UNCHANGED <<call, summaries>>

ExecTerminate ==
    /\ tool_result' = Prompt("terminate")
    /\ agent_state' = [agent_state EXCEPT !.conversation_active = FALSE,
                                          !.goal_completed = TRUE]
    /\ memory' = <<>>
    /\ status' = "none"
    /\ last' = ToolRun("terminate")
    /\ UNCHANGED <<call, summaries>>

\* The utterances of the runs that mix requests and tools.
EnvUtterances == {U_Tur, U_Da, U_NeOchen}

EnvRequest ==
    \E message \in EnvUtterances :
        \E rec \in RecInputs(message) :
            travel_agent("A", message, rec)

NextEnv == EnvRequest \/ ExecSequential \/ ExecError \/ ExecTerminate

SpecEnv == Init /\ [][NextEnv]_vars

\* One caller who keeps sending utterances.
NextLive ==
    \E message \in EnvUtterances :
        \E rec \in RecInputs(message) :
            travel_agent("A", message, rec)

\* The request that answers the hand-off offer.
AnswerOffer == agent_state.current_goal = 8 /\ NextLive

\* The caller keeps sending: the answer to the offer is not put off forever.
SpecLive == Init /\ [][NextLive]_vars /\ WF_vars(AnswerOffer)

(***************************************************************************)
(* The feedback classifier called on its own                               *)
(***************************************************************************)

\* The phrases the feedback texts are made of:
\* horosho, spasibo, ne podhodit, net, ok, Da
Phrases ==
    << <<"h_", "o_", "r_", "o_", "sh_", "o_">>,
       <<"s_", "p_", "a_", "s_", "i_", "b_", "o_">>,
       <<"n_", "e_", " ", "p_", "o_", "d_", "h_", "o_", "d_", "i_", "t_">>,
       <<"n_", "e_", "t_">>,
       <<"o", "k">>,
       <<"D_", "a_">> >>

\* ", "
Separator == <<",", " ">>

\* Longest feedback text, in phrases.
MaxPhrases == 3

\* The phrases picked by the indices ix, joined by the separator.
RECURSIVE JoinPhrases(_)
JoinPhrases(ix) ==
    IF Len(ix) = 0 THEN <<>>
    ELSE IF Len(ix) = 1 THEN Phrases[ix[1]]
    ELSE Phrases[ix[1]] \o Separator \o JoinPhrases(Tail(ix))

PhraseChoices ==
    UNION {[1..n -> DOMAIN Phrases] : n \in 0..MaxPhrases}

FeedbackTexts == {JoinPhrases(ix) : ix \in PhraseChoices}

\* The state every direct call starts from: nothing has run.
Idle ==
    /\ memory = <<>>
    /\ status = "none"
    /\ tool_result = NoResult
    /\ last = NoTurn
    /\ summaries = 0

InitClassify ==
    /\ agent_state = FreshState
    /\ Idle
    /\ \E text \in FeedbackTexts :
           call = [fn |-> "input", arg |-> text, result |-> "none"]

Classify ==
    /\ call.fn = "input"
    /\ call' = [ fn |-> "analyze_feedback_sentiment",
                 arg |-> call.arg,
                 result |-> analyze_feedback_sentiment(call.arg) ]
    /\ UNCHANGED <<agent_state, memory, status, tool_result, last, summaries>>

SpecClassify == InitClassify /\ [][Classify]_vars

(***************************************************************************)
(* The summary builder called on its own                                   *)
(***************************************************************************)

\* Trip-type answers besides the three codes: keywords in either case, a
\* text with two keywords, a code with a blank before it, no keyword.
TT_OrganizedTour == <<"O", "r", "g", "a", "n", "i", "z", "e", "d", " ", "t", "o", "u", "r">>
TT_Independent == <<"i", "n", "d", "e", "p", "e", "n", "d", "e", "n", "t">>
TT_Business == <<"B", "u", "s", "i", "n", "e", "s", "s">>
TT_TwoKeywords == <<"i", "n", "d", "e", "p", "e", "n", "d", "e", "n", "t", ",", " ", "n", "o", "t", " ", "o", "r", "g", "a", "n", "i", "z", "e", "d">>
TT_BlankTwo == <<" ", "2">>
TT_Cruise == <<"c", "r", "u", "i", "s", "e">>

TripTypes ==
    { code_1, code_2, code_3, TT_OrganizedTour, TT_Independent, TT_Business,
      TT_TwoKeywords, TT_BlankTwo, TT_Cruise, U_Da }

\* The sessions a summary is built for: the five answers are in.
SummarySessions ==
    { [FreshState EXCEPT
          !.current_goal = 6,
          !.has_asked_goal_1 = TRUE,
          !.user_responses =
              [ trip_type |-> trip_type,
                destination |-> destination,
                group_size |-> U_Two,
                travel_dates |-> U_NeOchen,
                departure_city |-> U_YES ]] :
        trip_type \in TripTypes, destination \in {U_Da, U_Two} }

InitSummary ==
    /\ agent_state \in SummarySessions
    /\ Idle
    /\ call = [fn |-> "input", arg |-> agent_state.user_responses,
               result |-> "none"]

BuildSummary ==
    /\ call.fn = "input"
    /\ \E rec \in RecOutcomes :
           call' = [ fn |-> "generate_travel_summary",
                     arg |-> call.arg,
                     result |-> generate_travel_summary(agent_state, rec) ]
    /\ summaries' = summaries + 1
    /\ UNCHANGED <<agent_state, memory, status, tool_result, last>>

SpecSummary == InitSummary /\ [][BuildSummary]_vars

(***************************************************************************)
(* The endpoint answered with the options of the trip-type prompt          *)
(***************************************************************************)

\* The full names of the three options of ask_trip_type:
\* Samostoyatel'naya poezdka, Organizovannyj turizm, Delovaya poezdka
N_Independent == <<"S_", "a_", "m_", "o_", "s_", "t_", "o_", "ya_", "t_", "e_", "l_", "soft_", "n_", "a_", "ya_", " ", "p_", "o_", "e_", "z_", "d_", "k_", "a_">>
N_Organized == <<"O_", "r_", "g_", "a_", "n_", "i_", "z_", "o_", "v_", "a_", "n_", "n_", "y_", "j_", " ", "t_", "u_", "r_", "i_", "z_", "m_">>
N_Business == <<"D_", "e_", "l_", "o_", "v_", "a_", "ya_", " ", "p_", "o_", "e_", "z_", "d_", "k_", "a_">>

\* What the prompt asks for: the number or the full name of an option.
OptionAnswers ==
    {code_1, code_2, code_3, N_Independent, N_Organized, N_Business}

NextOptions ==
    \E message \in OptionAnswers \cup {U_Da} :
        \E rec \in RecInputs(message) :
            travel_agent("A", message, rec)

SpecOptions == Init /\ [][NextOptions]_vars

(***************************************************************************)
(* The feedback classifier called on a text and on a permutation of it     *)
(***************************************************************************)

\* The words the permuted texts are made of: ne, podhodit, horosho, to, ok.
\* The first three are keywords, "ne podhodit" and "ne to" are keywords of
\* two words, "to" and "ok" alone are filler.
Words ==
    << <<"n_", "e_">>,
       <<"p_", "o_", "d_", "h_", "o_", "d_", "i_", "t_">>,
       <<"h_", "o_", "r_", "o_", "sh_", "o_">>,
       <<"t_", "o_">>,
       <<"o", "k">> >>

\* " "
Blank == <<" ">>

\* Longest permuted text, in words.
MaxWords == 3

\* sep.join(words)
RECURSIVE JoinWords(_, _)
JoinWords(words, sep) ==
    IF Len(words) = 0 THEN <<>>
    ELSE IF Len(words) = 1 THEN words[1]
    ELSE words[1] \o sep \o JoinWords(Tail(words), sep)

\* The orders of 1..n: its permutations.
Orders(n) ==
    {p \in [1..n -> 1..n] : \A i, j \in 1..n : i # j => p[i] # p[j]}

\* A text of words, and the same words in another order, joined alike.
PermutedPairs ==
    UNION { UNION { { [ text |-> JoinWords([i \in 1..n |-> Words[ix[i]]], sep),
                        permuted |->
                            JoinWords([i \in 1..n |-> Words[ix[p[i]]]], sep),
                        sep |-> sep ] :
                      p \in Orders(n), sep \in {Blank, Separator} } :
                    ix \in [1..n -> DOMAIN Words] } :
            n \in 0..MaxWords }

InitPermute ==
    /\ agent_state = FreshState
    /\ Idle
    /\ \E pair \in PermutedPairs :
           call = [fn |-> "input", arg |-> pair, result |-> "none"]

\* The text is classified, classified once more, and its permutation is
\* classified.
ClassifyPermuted ==
    /\ call.fn = "input"
    /\ call' = [ fn |-> "analyze_feedback_sentiment",
                 arg |-> call.arg,
                 result |->
                     [ first |-> analyze_feedback_sentiment(call.arg.text),
                       again |-> analyze_feedback_sentiment(call.arg.text),
                       permuted |->
                           analyze_feedback_sentiment(call.arg.permuted) ] ]
    /\ UNCHANGED <<agent_state, memory, status, tool_result, last, summaries>>

SpecPermute == InitPermute /\ [][ClassifyPermuted]_vars

(***************************************************************************)
(* Properties                                                              *)
(***************************************************************************)

\* The last operation was a request to the endpoint.
Request == last.op = "travel_agent"

\* The last operation was a request whose utterance was handed to the
\* transition rule (process_user_response) with the session at step k.
RuleAt(k) == Request /\ last.path = "process" /\ last.goal = k

\* The assistant entry of the last response.
Reply == memory[Len(memory)].content

\* The last response carries an assistant entry with this text.
Emitted(text) ==
    \E i \in DOMAIN memory :
        memory[i].type = "assistant" /\ memory[i].content.text = text

\* The prompt of each step, as the prompt table of the design gives it.
StepPrompt(k) ==
    CASE k = 1 -> ask_trip_type
      [] k = 2 -> ask_destination
      [] k = 3 -> ask_group_size
      [] k = 4 -> ask_travel_dates
      [] k = 5 -> ask_departure_city

\* What a turn on an answer of step k must leave behind.
AnswerStored(k) ==
    /\ AnswerKey(k) \in DOMAIN agent_state.user_responses
    /\ agent_state.user_responses[AnswerKey(k)] = last.message
    /\ agent_state.error_count = 0
    /\ k <= 4 => /\ agent_state.current_goal = k + 1
                 /\ Reply = StepPrompt(k + 1)

\* C1 as stated: every non-empty utterance that reaches the endpoint while
\* the session is at step k in 1..5 is stored under the key of step k with
\* errorCount 0, and for k in 1..4 the session moves to k+1 and replies with
\* the prompt of k+1.
C1_Original ==
    \A k \in 1..5 :
        (Request /\ last.goal = k /\ last.message # <<>>) => AnswerStored(k)

\* C1 amended: the same holds for every non-empty utterance the endpoint
\* hands to the transition rule at step k in 1..5, that is for every turn
\* but the opening turn of a fresh session, whose utterance only draws the
\* trip-type prompt.
C1_Amended ==
    \A k \in 1..5 :
        (RuleAt(k) /\ last.message # <<>>) => AnswerStored(k)

\* An answer at step 3 was stored by a session that had counted errors.
C1_Witness ==
    /\ RuleAt(3)
    /\ last.err > 0
    /\ agent_state.current_goal = 4
    /\ agent_state.user_responses["group_size"] = U_Da

\* C2: the turn on the departure-city answer (step 5) emits the summary, with
\* its five fields and its recommendation block, and the feedback request,
\* and ends at step 7.
C2_SummaryAndFeedbackInOneTurn ==
    RuleAt(5) =>
        /\ Emitted("travel_summary")
        /\ Emitted("ask_user_feedback")
        /\ agent_state.current_goal = 7

\* C3: step 6 consumes no utterance: no turn ends at step 6 and no
\* utterance is handed to the transition rule at step 6.
C3_StepSixConsumesNoInput ==
    Request => (agent_state.current_goal # 6 /\ last.goal # 6)

\* C4: positive feedback at step 7 moves the session to step 8 and the reply
\* is the human-agent offer; the session stays active and not completed.
C4_PositiveFeedback ==
    (RuleAt(7) /\ analyze_feedback_sentiment(last.message) = "positive") =>
        /\ agent_state.current_goal = 8
        /\ Reply = offer_human_agent_connection
        /\ agent_state.conversation_active
        /\ ~agent_state.goal_completed

\* Positive feedback was given at step 7.
C4_Witness ==
    /\ RuleAt(7)
    /\ last.message = U_Da
    /\ agent_state.user_responses["feedback"] = U_Da
    /\ agent_state.current_goal = 8

\* What every negative-feedback turn at step 7 leaves, error count apart.
NegativeHandled ==
    /\ agent_state.current_goal = 7
    /\ Reply = analyze_negative_feedback
    /\ agent_state.conversation_active

\* C5 as stated: negative feedback at step 7 keeps the session at step 7,
\* replies with the tell-us-more prompt, keeps the session active and leaves
\* errorCount as it was, whatever it was.
C5_Original ==
    (RuleAt(7) /\ analyze_feedback_sentiment(last.message) = "negative") =>
        (NegativeHandled /\ agent_state.error_count = last.err)

\* C5 amended: negative feedback at step 7 keeps the session at step 7,
\* replies with the tell-us-more prompt, keeps the session active and sets
\* errorCount to 0, so errorCount is unchanged only if it was 0 already.
C5_Amended ==
    (RuleAt(7) /\ analyze_feedback_sentiment(last.message) = "negative") =>
        (NegativeHandled /\ agent_state.error_count = 0)

\* Negative feedback was given at step 7 by a session that had counted
\* errors.
C5_Witness ==
    /\ RuleAt(7)
    /\ last.message = U_NeOchen
    /\ last.err > 0
    /\ agent_state.current_goal = 7

\* C6: neutral feedback at step 7 keeps the session at step 7 and replies
\* with the generic clarification; neutral and negative feedback never count
\* as an error, so after any such turn the session is still active at step 7
\* and the error handler would not answer with the max-errors apology.
C6_NeutralFeedback ==
    /\ (RuleAt(7) /\ analyze_feedback_sentiment(last.message) = "neutral") =>
           (agent_state.current_goal = 7 /\ Reply = clarify_feedback)
    /\ (RuleAt(7) /\ analyze_feedback_sentiment(last.message) # "positive") =>
           /\ agent_state.current_goal = 7
           /\ agent_state.conversation_active
           /\ ~agent_state.goal_completed
           /\ agent_state.error_count <= last.err
           /\ handle_user_error(agent_state).text # "max_errors_apology"
           /\ status = "in_progress"

\* Neutral feedback was given to a session waiting at step 7.
C6_Witness ==
    /\ RuleAt(7)
    /\ last.message = U_Two
    /\ last.prev_goal = 7
    /\ agent_state.user_responses["feedback"] = U_Two
    /\ agent_state.current_goal = 7

\* The affirmative tokens of the closing rule, lower-cased containment.
HasAffirmativeToken(utterance) ==
    \E token \in {affirmative_da, affirmative_yes} :
        Contains(Lower(utterance), token)

\* C7: an utterance at step 8 is stored verbatim as human_agent_request, the
\* session becomes inactive and completed, and the reply is the hand-off
\* closing exactly when the utterance contains "da" or "yes" in any case,
\* the plain thank-you closing otherwise.
C7_Closing ==
    RuleAt(8) =>
        /\ "human_agent_request" \in DOMAIN agent_state.user_responses
        /\ agent_state.user_responses["human_agent_request"] = last.message
        /\ ~agent_state.conversation_active
        /\ agent_state.goal_completed
        /\ Reply = IF HasAffirmativeToken(last.message)
                   THEN final_handoff
                   ELSE final_thanks

\* A capitalised "YES" closed the session with the hand-off message.
C7_Witness ==
    /\ RuleAt(8)
    /\ last.message = U_YES
    /\ Reply = final_handoff
    /\ agent_state.goal_completed

\* A fresh session: step 1, no answers, no errors, active, not completed.
Fresh(st) ==
    /\ st.current_goal = 1
    /\ DOMAIN st.user_responses = {}
    /\ st.error_count = 0
    /\ st.conversation_active
    /\ ~st.goal_completed

\* The utterance contains a start-a-new-trip phrase, in any case.
HasTrigger(utterance) ==
    \E i \in DOMAIN new_conversation_keywords :
        Contains(Lower(utterance), new_conversation_keywords[i])

\* C8: once completed is true, the next request, whatever its utterance,
\* leaves a fresh session.
C8_ResetAfterCompleted ==
    [][(agent_state.goal_completed /\ last'.op = "travel_agent")
           => Fresh(agent_state')]_vars

\* A request without trigger phrase found the session completed at step 8
\* and left a fresh one.
C8_Witness ==
    /\ Request
    /\ last.reset
    /\ ~HasTrigger(last.message)
    /\ last.prev_goal = 8
    /\ Fresh(agent_state)

\* C9: an utterance with a trigger phrase replaces the session by a fresh one
\* before any transition rule runs: the answers are gone, the session is at
\* step 1 with no errors, active and not completed, and the utterance is
\* stored nowhere.
C9_TriggerResets ==
    (Request /\ HasTrigger(last.message)) =>
        /\ last.reset
        /\ last.path = "start"
        /\ Fresh(agent_state)

\* A capitalised trigger phrase arrived when four answers had been given.
C9_Witness ==
    /\ Request
    /\ last.message = U_Tur
    /\ last.prev_goal = 5
    /\ Fresh(agent_state)

\* The part of a session the design names.
SessionView(st) ==
    [ step |-> st.current_goal,
      answers |-> st.user_responses,
      errorCount |-> st.error_count,
      active |-> st.conversation_active,
      completed |-> st.goal_completed ]

\* C10: a request of one conversation leaves the session of every other
\* conversation as it was.
C10_NoInterference ==
    [][\A a, b \in Conversations :
           (a # b /\ last'.op = "travel_agent" /\ last'.conv = a)
               => SessionView(SessionOf(b))' = SessionView(SessionOf(b))]_vars

\* The last operation was a run of this tool.
ToolRan(name) == last.op = name

\* C14: without a reset in between, no turn lowers the step, and a turn that
\* leaves a step k in 1..5 adds exactly the key of step k to the answers and
\* changes no answer that was there.
C14_MonotoneOneKeyPerAdvance ==
    [][(last'.op = "travel_agent" /\ ~last'.reset) =>
           LET before == agent_state.user_responses
               after == agent_state'.user_responses
               k == agent_state.current_goal
           IN  /\ agent_state'.current_goal >= k
               /\ (k \in 1..5 /\ agent_state'.current_goal > k) =>
                      /\ AnswerKey(k) \notin DOMAIN before
                      /\ DOMAIN after = (DOMAIN before) \cup {AnswerKey(k)}
                      /\ \A key \in DOMAIN before : after[key] = before[key]]_vars

\* The answer of step 4 was added to three answers already given.
C14_Witness ==
    /\ RuleAt(4)
    /\ ~last.reset
    /\ agent_state.current_goal = 5
    /\ DOMAIN agent_state.user_responses =
           {"trip_type", "destination", "group_size", "travel_dates"}
    /\ agent_state.user_responses["trip_type"] = U_Two
    /\ agent_state.user_responses["travel_dates"] = U_Da

\* C15: the answers hold a key only for a step already reached: the key of
\* step k in 1..5 only if step >= k, feedback only if step >= 7,
\* human_agent_request only if step >= 8.
C15_NoAnswerAhead ==
    /\ \A k \in 1..5 :
           AnswerKey(k) \in DOMAIN agent_state.user_responses
               => agent_state.current_goal >= k
    /\ "feedback" \in DOMAIN agent_state.user_responses
           => agent_state.current_goal >= 7
    /\ "human_agent_request" \in DOMAIN agent_state.user_responses
           => agent_state.current_goal >= 8

\* A session holds all seven answers, the first stored by the tool.
C15_Witness ==
    /\ Cardinality(DOMAIN agent_state.user_responses) = 7
    /\ agent_state.user_responses["trip_type"] = Placeholder(1)
    /\ agent_state.current_goal = 8

\* C16: after every turn in which the step advances, by an answer, by the
\* sequential tool or by positive feedback, errorCount is 0.
C16_AdvanceResetsErrors ==
    ((Request \/ ToolRan("execute_sequential_travel_planning"))
         /\ agent_state.current_goal > last.goal)
        => agent_state.error_count = 0

\* C17 as stated: errorCount never exceeds the maximum.
C17_Original == agent_state.error_count <= max_errors

\* C17 amended: errorCount does not saturate: an error reported when
\* errorCount is at or above the maximum (3) still increases it by one; it
\* does not change the step, and the message is the terminal apology.
C17_Amended ==
    [][(last'.op = "handle_user_error"
            /\ agent_state.error_count >= max_errors) =>
           /\ agent_state'.error_count = agent_state.error_count + 1
           /\ agent_state'.current_goal = agent_state.current_goal
           /\ tool_result'.text = "max_errors_apology"]_vars

\* An error was reported to a session that had reached the maximum.
C17_Witness ==
    /\ ToolRan("handle_user_error")
    /\ last.err = max_errors
    /\ agent_state.error_count = max_errors + 1

\* C18: when the terminal apology is emitted the session ends: it is
\* inactive after that run.
C18_ApologyEndsSession ==
    (ToolRan("handle_user_error") /\ tool_result.text = "max_errors_apology")
        => ~agent_state.conversation_active

C20_StepInRange == agent_state.current_goal \in 1..9

\* The recommendation itself and the notices that stand in for it.
VisibleBlocks ==
    { "recommendations", "no_api_key", "api_error", "timeout",
      "connection_error", "unexpected_error", "error_getting_recommendations" }

\* C11: whatever the Recommendation Client does, the turn on the
\* departure-city answer succeeds and replies with a summary of the five
\* fields followed by the recommendation or a visible error notice, and the
\* step changes as it does when the client succeeds.
C11_SummaryNeverFails ==
    RuleAt(5) =>
        LET answers == agent_state.user_responses
        IN  /\ Len(memory) = 2
            /\ Reply.text = "travel_summary"
            /\ Len(Reply.body) = 6
            /\ Reply.body[1] = trip_type_display(answers["trip_type"])
            /\ Reply.body[2] = answers["destination"]
            /\ Reply.body[3] = answers["group_size"]
            /\ Reply.body[4] = answers["travel_dates"]
            /\ Reply.body[5] = last.message
            /\ Reply.body[6] \in VisibleBlocks
            /\ agent_state.current_goal = 6
            /\ status = "in_progress"

\* The client failed outside its own handlers and the summary shows the
\* notice.
C11_Witness ==
    /\ RuleAt(5)
    /\ Reply.text = "travel_summary"
    /\ Reply.body[6] = "error_getting_recommendations"
    /\ agent_state.current_goal = 6

\* The number of keywords of a list that the lower-cased text contains.
KeywordCount(words, text) ==
    Cardinality({word \in {words[i] : i \in DOMAIN words} :
                    Contains(Lower(text), word)})

\* C12: the classifier returns positive exactly when the text contains more
\* positive than negative keywords, negative exactly when it contains more
\* negative ones, neutral otherwise, a keyword counting when the lower-cased
\* text contains it.
C12_ClassifyByKeywordCount ==
    call.fn = "analyze_feedback_sentiment" =>
        LET positive_count == KeywordCount(positive_words, call.arg)
            negative_count == KeywordCount(negative_words, call.arg)
        IN  /\ call.result = "positive" <=> positive_count > negative_count
            /\ call.result = "negative" <=> negative_count > positive_count
            /\ call.result = "neutral" <=> positive_count = negative_count

\* The raw trip type of the session and the label its summary shows.
RawTripType == agent_state.user_responses["trip_type"]
ShownTripType == call.result.body[1]

\* The raw trip type is this code or contains this keyword, in any case.
Names(code, keyword) ==
    RawTripType = code \/ Contains(Lower(RawTripType), keyword)

\* Building the summary left the answers as they were given.
AnswersKept == agent_state.user_responses = call.arg

\* C13 as stated: "2" or the organized keyword gives the organized label,
\* "1" or the independent keyword the independent label, "3" or the business
\* keyword the business label, anything else is shown verbatim, and the
\* stored answers are unchanged.
C13_Original ==
    call.fn = "generate_travel_summary" =>
        /\ Names(code_2, kw_organized) => ShownTripType = label_organized
        /\ Names(code_1, kw_independent) => ShownTripType = label_independent
        /\ Names(code_3, kw_business) => ShownTripType = label_business
        /\ ~(Names(code_2, kw_organized) \/ Names(code_1, kw_independent)
                \/ Names(code_3, kw_business)) => ShownTripType = RawTripType
        /\ AnswersKept

\* C13 amended: the three rules apply in the order organized, independent,
\* business and the first that matches decides, so a text with the organized
\* keyword shows the organized label even if it also contains another
\* keyword; anything else is shown verbatim, and the stored answers are
\* unchanged.
C13_Amended ==
    call.fn = "generate_travel_summary" =>
        /\ Names(code_2, kw_organized) => ShownTripType = label_organized
        /\ (~Names(code_2, kw_organized) /\ Names(code_1, kw_independent))
               => ShownTripType = label_independent
        /\ (~Names(code_2, kw_organized) /\ ~Names(code_1, kw_independent)
                /\ Names(code_3, kw_business))
               => ShownTripType = label_business
        /\ ~(Names(code_2, kw_organized) \/ Names(code_1, kw_independent)
                \/ Names(code_3, kw_business)) => ShownTripType = RawTripType
        /\ AnswersKept

\* A summary was built for an answer with two keywords.
C13_Witness ==
    /\ call.fn = "generate_travel_summary"
    /\ RawTripType = TT_TwoKeywords
    /\ ShownTripType = label_organized

\* The session waits for the answer to the trip-type prompt.
WaitsAtStepOne ==
    /\ agent_state.current_goal = 1
    /\ agent_state.has_asked_goal_1
    /\ agent_state.conversation_active
    /\ ~agent_state.goal_completed

\* C21: while the session waits at step 1, an answer that is the number or
\* the full name of one of the three options of the trip-type prompt is
\* stored as trip_type, the step becomes 2 and the reply is the destination
\* prompt.
C21_OptionAnswerStored ==
    [][(WaitsAtStepOne /\ last'.op = "travel_agent"
            /\ last'.message \in OptionAnswers) =>
           /\ "trip_type" \in DOMAIN agent_state'.user_responses
           /\ agent_state'.user_responses["trip_type"] = last'.message
           /\ agent_state'.current_goal = 2
           /\ memory'[Len(memory')].content = ask_destination]_vars

\* C22: a turn builds at most one summary and sends at most one request to
\* the Recommendation Client for it, whatever the outcome, and none without
\* a summary; a turn builds the summary exactly when it processes the
\* departure-city answer, and a session that was not reset since has built
\* exactly one summary once it is past step 5 and none before.
C22_OneSummaryOneCall ==
    /\ Request =>
           /\ last.built <= 1
           /\ last.posts <= last.built
           /\ last.built = 1 <=> RuleAt(5)
    /\ summaries = IF agent_state.current_goal >= 6 THEN 1 ELSE 0

\* The one request of a summary ran into the timeout and was not repeated.
C22_Witness ==
    /\ RuleAt(5)
    /\ Reply.text = "travel_summary"
    /\ Reply.body[6] = "timeout"
    /\ last.built = 1
    /\ last.posts = 1
    /\ summaries = 1

\* The entries of the two keyword lists that the lower-cased text contains.
EntriesIn(text) ==
    << {i \in DOMAIN positive_words : Contains(Lower(text), positive_words[i])},
       {i \in DOMAIN negative_words : Contains(Lower(text), negative_words[i])} >>

C24_FirstUtteranceNotStored ==
    [][last'.op = "travel_agent" =>
           /\ last'.path = "start"
                  <=> (last'.reset \/ ~agent_state.has_asked_goal_1)
           /\ last'.reset
                  <=> (agent_state.goal_completed \/ HasTrigger(last'.message))
           /\ last'.path = "start" =>
                  /\ agent_state'.current_goal = 1
                  /\ DOMAIN agent_state'.user_responses = {}
                  /\ memory'[Len(memory')].content = ask_trip_type
           /\ (last.path = "start" /\ ~last'.reset) =>
                  /\ DOMAIN agent_state'.user_responses = {"trip_type"}
                  /\ agent_state'.user_responses["trip_type"] = last'.message
                  /\ agent_state'.current_goal = 2]_vars

\* The utterance after a completed session drew the trip-type prompt and
\* was not stored.
C24_Witness ==
    /\ Request
    /\ last.path = "start"
    /\ last.prev_goal = 8
    /\ last.message = U_Da
    /\ Reply = ask_trip_type
    /\ DOMAIN agent_state.user_responses = {}

\* C25: completed is the negation of active, and a completed session is at
\* step 8 and holds the answer human_agent_request.
C25_CompletedMeansClosed ==
    /\ agent_state.goal_completed = ~agent_state.conversation_active
    /\ agent_state.goal_completed =>
           /\ agent_state.current_goal = 8
           /\ "human_agent_request" \in DOMAIN agent_state.user_responses

\* A session was completed by the answer to the hand-off offer.
C25_Witness ==
    /\ agent_state.goal_completed
    /\ ~agent_state.conversation_active
    /\ agent_state.current_goal = 8
    /\ agent_state.user_responses["human_agent_request"] = U_Two

\* No utterance with a trigger phrase is sent.
NoTriggerSent == ~(Request /\ HasTrigger(last.message))

\* Positive feedback was sent to the session waiting at step 7.
PositiveAtSeven ==
    RuleAt(7) /\ analyze_feedback_sentiment(last.message) = "positive"

\* C26: if the caller keeps sending utterances, none of them with a trigger
\* phrase, then positive feedback sent at step 7 leads to a completed
\* session.
C26_EventuallyCompleted ==
    []NoTriggerSent => (PositiveAtSeven ~> agent_state.goal_completed)

\* A session that got positive feedback was completed by an utterance
\* without trigger phrase.
C26_Witness ==
    /\ RuleAt(8)
    /\ ~HasTrigger(last.message)
    /\ agent_state.goal_completed
    /\ analyze_feedback_sentiment(agent_state.user_responses["feedback"])
           = "positive"

\* C27: a turn reports "completed" exactly when the session is completed at
\* its end, which is so exactly in the turns that processed an utterance at
\* step 8; every other turn, the one after a completed session included,
\* reports "in_progress".
C27_StatusCompleted ==
    [][last'.op = "travel_agent" =>
           /\ status' = "completed" <=> agent_state'.goal_completed
           /\ agent_state'.goal_completed
                  <=> (last'.path = "process" /\ last'.goal = 8)
           /\ status' # "completed" => status' = "in_progress"
           /\ agent_state.goal_completed => status' = "in_progress"]_vars

\* The turn on the answer at step 8 reported "completed".
C27_Witness ==
    /\ RuleAt(8)
    /\ last.message = U_NeOchen
    /\ status = "completed"
    /\ agent_state.goal_completed

\* The turn moved the session one step on.
Advanced == agent_state.current_goal = last.goal + 1

\* C28: every turn returns two entries, a user entry and then an assistant
\* entry; the turns that advance the step are the turns on an utterance at
\* steps 1..6 and on positive feedback at step 7, and their user entry is
\* the fixed text "continue"; the user entry of every other turn (opening
\* turn, negative or neutral feedback, step 8) is the caller's utterance.
C28_TwoEntries ==
    Request =>
        /\ Len(memory) = 2
        /\ memory[1].type = "user"
        /\ memory[2].type = "assistant"
        /\ Advanced <=> ((\E k \in 1..6 : RuleAt(k)) \/ PositiveAtSeven)
        /\ memory[1].content =
               IF Advanced THEN continue_input ELSE last.message

\* Negative feedback came back as the user entry of its turn.
C28_Witness ==
    /\ RuleAt(7)
    /\ last.message = U_NeOchen
    /\ memory[1] = Entry("user", U_NeOchen)
    /\ memory[2] = Entry("assistant", analyze_negative_feedback)
    /\ agent_state.current_goal = 7
====
